---- MODULE Spec2Model ----
(***************************************************************************)
(* purplnay/markov-chain: the Indexed-Dictionary chain (src/unnamed/       *)
(* part_001) and the String-Corpus chain (src/index.js).                   *)
(*                                                                         *)
(* A JavaScript string is a sequence of one-character strings, so that     *)
(* split, join and trim are computed and not assumed.  Array positions     *)
(* keep the 0-based values of the code; a TLA+ sequence holds position p   *)
(* at p + 1.                                                               *)
(***************************************************************************)
EXTENDS Integers, Sequences, FiniteSets, TLC

\* ------------------------------------------------------------------ bounds
\* Total size of what a chain learns: one per sentence plus one per character.
MaxBudget == 5
\* Largest grams a caller supplies.
MaxGrams == 2
\* Cap on the length of the index sequence a walk of generate builds.
MaxWalk == 6

\* ----------------------------------------------------------- JS primitives
Space == " "
Letters == {"a", "b"}
Chars == Letters \cup {Space}
EmptyString == <<>>

StringsUpTo(n) == UNION {[1..k -> Chars] : k \in 0..n}

Range(seq) == {seq[i] : i \in 1..Len(seq)}

\* Array.prototype.indexOf: the first position (0-based) holding x, or -1.
IndexOf(arr, x) ==
  IF \E i \in 1..Len(arr) : arr[i] = x
    THEN (CHOOSE i \in 1..Len(arr) : arr[i] = x /\ \A j \in 1..(i - 1) : arr[j] # x) - 1
    ELSE -1

\* Array.prototype.includes.
Includes(arr, x) == \E i \in 1..Len(arr) : arr[i] = x

\* Array.prototype.slice(begin, end) for begin >= 0 and end >= 0.
Slice(arr, begin, end) ==
  LET e == IF end > Len(arr) THEN Len(arr) ELSE end
  IN  IF begin >= e THEN <<>> ELSE SubSeq(arr, begin + 1, e)

\* Array.prototype.reverse (as a value).
Reverse(arr) == [i \in 1..Len(arr) |-> arr[Len(arr) + 1 - i]]

\* String.prototype.split(' '): cuts at every single space; never empty.
RECURSIVE Split(_)
Split(str) ==
  LET cut == IndexOf(str, Space)
  IN  IF cut = -1
        THEN <<str>>
        ELSE <<SubSeq(str, 1, cut)>> \o Split(SubSeq(str, cut + 2, Len(str)))

\* Array.prototype.join(' ').
RECURSIVE Join(_)
Join(arr) ==
  IF arr = <<>> THEN EmptyString
  ELSE IF Len(arr) = 1 THEN arr[1]
  ELSE arr[1] \o <<Space>> \o Join(Tail(arr))

\* ------------------------------------- Indexed-Dictionary chain: the state
VARIABLES
  corpus,      \* this.corpus: the sentences learnt, as dictionary positions
  dictionary,  \* this.dictionary: the words learnt
  config,      \* this.config: the default generation config
  learnt,      \* history: the strings passed to update, in order
  pc,          \* "idle", or "walk" inside the while loop of generate
  args,        \* the config object passed to generate
  from,        \* generate's local from
  grams,       \* generate's local grams
  backward,    \* generate's local backward
  sentence,    \* generate's local sentence
  outcome,     \* how the generate call ended: "none" (no call ended), "returned", "TypeError"
  result       \* the string the generate call returned
\* args .. result describe the generate call in progress, or the last one made
\* since the last update; update forgets them.

ivars == <<corpus, dictionary, config, learnt, pc, args, from, grams, backward,
           sentence, outcome, result>>

DefaultConfig == [from |-> EmptyString, grams |-> 2, backward |-> FALSE]

\* constructor with no base: base = {} so every field falls to its default.
NoCall ==
  /\ args = <<>>
  /\ from = DefaultConfig.from
  /\ grams = DefaultConfig.grams
  /\ backward = DefaultConfig.backward
  /\ sentence = <<>>
  /\ outcome = "none"
  /\ result = EmptyString

InitIndexed ==
  /\ corpus = <<>>
  /\ dictionary = <<>>
  /\ config = DefaultConfig
  /\ learnt = <<>>
  /\ pc = "idle"
  /\ NoCall

\* ------------------------------------------------------------------ update
\* Intern with the position taken after the push without the - 1.
RECURSIVE InternPastEnd(_, _, _)
InternPastEnd(words, d, s) ==
  IF words = <<>> THEN [dictionary |-> d, sentence |-> s]
  ELSE LET word == Head(words)
           index == IndexOf(d, word)
       IN  IF index = -1
             THEN InternPastEnd(Tail(words), Append(d, word), Append(s, Len(d) + 1))
             ELSE InternPastEnd(Tail(words), d, Append(s, index))

\* Intern with the word pushed whether or not it was found.
RECURSIVE InternAlwaysPush(_, _, _)
InternAlwaysPush(words, d, s) ==
  IF words = <<>> THEN [dictionary |-> d, sentence |-> s]
  ELSE LET word == Head(words)
           index == IndexOf(d, word)
       IN  IF index = -1
             THEN InternAlwaysPush(Tail(words), Append(d, word), Append(s, (Len(d) + 1) - 1))
             ELSE InternAlwaysPush(Tail(words), Append(d, word), Append(s, index))

\* Intern with a word already known left out of the sentence.
RECURSIVE InternSkipKnown(_, _, _)
InternSkipKnown(words, d, s) ==
  IF words = <<>> THEN [dictionary |-> d, sentence |-> s]
  ELSE LET word == Head(words)
           index == IndexOf(d, word)
       IN  IF index = -1
             THEN InternSkipKnown(Tail(words), Append(d, word), Append(s, (Len(d) + 1) - 1))
             ELSE InternSkipKnown(Tail(words), d, s)

\* The forEach of update: d is this.dictionary, s is this.corpus[last].
RECURSIVE Intern(_, _, _)
Intern(words, d, s) ==
  IF words = <<>> THEN [dictionary |-> d, sentence |-> s]
  ELSE LET word == Head(words)
           index == IndexOf(d, word)
       IN  IF index = -1
             THEN Intern(Tail(words), Append(d, word), Append(s, (Len(d) + 1) - 1))
             ELSE Intern(Tail(words), d, Append(s, index))

\* What the strings learnt so far count against MaxBudget.
RECURSIVE Cost(_)
Cost(strs) == IF strs = <<>> THEN 0 ELSE 1 + Len(Head(strs)) + Cost(Tail(strs))

update(str) ==
  /\ pc = "idle"
  /\ LET words == Split(str)
         learn == Intern(words, dictionary, <<>>)
     IN  /\ corpus' = Append(corpus, learn.sentence)
         /\ dictionary' = learn.dictionary
  /\ learnt' = Append(learnt, str)
  /\ args' = <<>>
  /\ from' = DefaultConfig.from
  /\ grams' = DefaultConfig.grams
  /\ backward' = DefaultConfig.backward
  /\ sentence' = <<>>
  /\ outcome' = "none"
  /\ result' = EmptyString
  /\ UNCHANGED <<config, pc>>

Update ==
  \E str \in StringsUpTo(MaxBudget - 1) :
    /\ Cost(learnt) + 1 + Len(str) <= MaxBudget
    /\ update(str)

\* ---------------------------------------------------------------- contains
\* contains with the position tested for truthiness: misses the first word.
containsTruthy(word) == IndexOf(dictionary, word) > 0

contains(word) == Includes(dictionary, word)

\* ---------------------------------------------------------------- generate
\* A config object: each of from, grams and backward is present or absent.
Field(name, values) == {<<>>} \cup {name :> v : v \in values}

\* The words a caller asks for: every word learnt, and some it may not know.
Probes == {EmptyString, <<"a">>, <<"b">>}

Configs ==
  {f @@ g @@ b : f \in Field("from", Range(dictionary) \cup Probes),
                 g \in Field("grams", 0..MaxGrams),
                 b \in Field("backward", BOOLEAN)}

\* config.from || this.config.from
ResolveFrom(cfg) ==
  IF "from" \in DOMAIN cfg /\ cfg.from # EmptyString THEN cfg.from ELSE config.from

\* config.grams || this.config.grams
ResolveGrams(cfg) ==
  IF "grams" \in DOMAIN cfg /\ cfg.grams # 0 THEN cfg.grams ELSE config.grams

\* ResolveBackward with the default taken only when the field is absent.
ResolveBackwardIfAbsent(cfg) ==
  IF "backward" \in DOMAIN cfg THEN cfg.backward ELSE config.backward

\* config.backward || this.config.backward
ResolveBackward(cfg) ==
  IF "backward" \in DOMAIN cfg /\ cfg.backward THEN cfg.backward ELSE config.backward

\* Translate without the reverse of the backward branch.
TranslateNoReverse(indices, bw) ==
  Join([i \in 1..Len(indices) |-> dictionary[indices[i] + 1]])

\* sentence.map(word => this.dictionary[word]).join(' '), reversed first if backward
Translate(indices, bw) ==
  LET ordered == IF bw THEN Reverse(indices) ELSE indices
  IN  Join([i \in 1..Len(ordered) |-> dictionary[ordered[i] + 1]])

\* generate up to its while loop: resolve the config, the unknown-word return,
\* and the first index of sentence.
GenerateBegin ==
  /\ pc = "idle"
  /\ \E cfg \in Configs :
       LET f == ResolveFrom(cfg)
           g == ResolveGrams(cfg)
           b == ResolveBackward(cfg)
       IN  /\ args' = cfg
           /\ from' = f
           /\ grams' = g
           /\ backward' = b
           /\ IF f # EmptyString /\ ~contains(f)
                THEN /\ outcome' = "returned"
                     /\ result' = EmptyString
                     /\ sentence' = <<>>
                     /\ pc' = "idle"
                ELSE IF Len(f) = 0
                  THEN IF Len(corpus) = 0
                         \* _getRandom([]) is undefined; reading [0] or .length of it throws
                         THEN /\ outcome' = "TypeError"
                              /\ result' = EmptyString
                              /\ sentence' = <<>>
                              /\ pc' = "idle"
                         ELSE \E r \in 1..Len(corpus) :
                                LET random == corpus[r]
                                IN  /\ sentence' = IF b THEN <<random[(Len(random) - 1) + 1]>>
                                                        ELSE <<random[0 + 1]>>
                                    /\ outcome' = "none"
                                    /\ result' = EmptyString
                                    /\ pc' = "walk"
                  ELSE /\ sentence' = <<IndexOf(dictionary, f)>>
                       /\ outcome' = "none"
                       /\ result' = EmptyString
                       /\ pc' = "walk"
  /\ UNCHANGED <<corpus, dictionary, config, learnt>>

\* Sequence with the forward slice starting at the word itself.
SequenceFromWord(chain, wordIndex, g, bw) ==
  IF bw
    THEN LET start == wordIndex - g
         IN  Reverse(Slice(chain, IF start >= 0 THEN start ELSE 0, wordIndex))
    ELSE Slice(chain, wordIndex, wordIndex + g)

\* The indices one iteration appends, from the chain picked.
Sequence(chain, wordIndex, g, bw) ==
  IF bw
    THEN LET start == wordIndex - g
         IN  Reverse(Slice(chain, IF start >= 0 THEN start ELSE 0, wordIndex))
    ELSE Slice(chain, wordIndex + 1, wordIndex + g + 1)

\* The loop's exit test.
Done(chain, wordIndex, g, bw) ==
  IF bw THEN wordIndex - g <= 0 ELSE wordIndex + g >= Len(chain) - 1

\* One iteration of the while loop, and the return when done.
GenerateStep ==
  /\ pc = "walk"
  /\ Len(sentence) < MaxWalk
  /\ LET last == sentence[Len(sentence)]
         possibleChains == {c \in 1..Len(corpus) : Includes(corpus[c], last)}
     IN  IF possibleChains = {}
           \* _getRandom([]) is undefined; chain.indexOf throws
           THEN /\ outcome' = "TypeError"
                /\ pc' = "idle"
                /\ UNCHANGED <<sentence, result>>
           ELSE \E c \in possibleChains :
                  LET chain == corpus[c]
                      wordIndex == IndexOf(chain, last)
                      grown == sentence \o Sequence(chain, wordIndex, grams, backward)
                  IN  /\ sentence' = grown
                      /\ IF Done(chain, wordIndex, grams, backward)
                           THEN /\ result' = Translate(grown, backward)
                                /\ outcome' = "returned"
                                /\ pc' = "idle"
                           ELSE UNCHANGED <<result, outcome, pc>>
  /\ UNCHANGED <<corpus, dictionary, config, learnt, args, from, grams, backward>>

\* ========================================================================
\* String-Corpus chain (src/index.js).  A window is an array object: the
\* heap holds the arrays, a corpus holds their addresses, so that two corpora
\* naming the same address share that window.
VARIABLES
  heap,       \* the window arrays allocated so far; an address is a position
  chains,     \* the two MarkovChain objects: "chain" and the rebuilt "copy"
  json,       \* the object the last toJSON returned
  texts,      \* history: the non-blank texts passed to update of "chain"
  writes,     \* history: how many words the caller stored into windows
  scPc,       \* "idle", or "walk" inside the while loop of generate
  scThis,     \* the chain generate was called on
  scStart,    \* generate's argument start
  scWords,    \* generate's local words
  scOutcome,  \* how the generate call ended: "none" (no call ended), "returned", "TypeError"
  scResult    \* the string the generate call returned
\* scThis .. scResult describe the generate call in progress, or the last one
\* made since the last change of a corpus; a non-blank update forgets them.

svars == <<heap, chains, json, texts, writes, scPc, scThis, scStart, scWords, scOutcome, scResult>>

\* generateFrom of the String-Corpus chain: the call in progress, or the last
\* one made since the last update.
VARIABLES
  gfPc,       \* "idle", "right" inside this.generate(word), "left" inside the while loop
  fromWord,   \* generateFrom's argument word
  leftPart,   \* generateFrom's local leftPart
  rightPart,  \* generateFrom's local rightPart
  search,     \* generateFrom's local search
  gfOutcome,  \* how the call ended: "none" (no call ended), "returned", "TypeError"
  gfResult,   \* the string the call returned
  before      \* history: the corpus of the chain, windows read, when the call began

fvars == <<gfPc, fromWord, leftPart, rightPart, search, gfOutcome, gfResult, before>>

\* history: flips at every iteration of the walk of generate made once
\* sentence holds MaxWalk indices, where the model keeps the last MaxWalk of
\* them only: an iteration is a step also when those are as they were.
VARIABLE iterated

vars == <<ivars, svars, fvars, iterated>>

\* The default delimiters; a delimiter is one symbol no text contains.
DefaultStart == <<"%startf%">>
DefaultEnd == <<"%endf%">>
DefaultSeparation == <<Space>>
DefaultNGrams == 3
\* Largest nGrams a caller constructs a chain with.
MaxNGrams == 3
\* Longest text passed to update of a String-Corpus chain.
MaxText == 3
\* Most window arrays ever allocated.
MaxWindows == 4
\* Most words the caller stores into windows.
MaxWrites == 1

Names == {"chain", "copy"}

\* constructor(nGrams, start, end, separation)
Construct(n, st, en, sep) ==
  [live |-> TRUE,
   nGrams |-> IF n > 1 THEN n ELSE DefaultNGrams,
   start |-> st, end |-> en, separation |-> sep,
   corpus |-> <<>>]

NoChain ==
  [live |-> FALSE, nGrams |-> DefaultNGrams, start |-> DefaultStart, end |-> DefaultEnd,
   separation |-> DefaultSeparation, corpus |-> <<>>]

NoJSON ==
  [made |-> FALSE, nGrams |-> DefaultNGrams, start |-> DefaultStart, end |-> DefaultEnd,
   separation |-> DefaultSeparation, corpus |-> <<>>]

\* new MarkovChain(n) for some n of ns; no snapshot and no copy yet.
InitString(ns) ==
  /\ heap = <<>>
  /\ \E n \in ns :
       chains = [who \in Names |->
                   IF who = "chain"
                     THEN Construct(n, DefaultStart, DefaultEnd, DefaultSeparation)
                     ELSE NoChain]
  /\ json = NoJSON
  /\ texts = <<>>
  /\ writes = 0
  /\ scPc = "idle"
  /\ scThis = "chain"
  /\ scStart = DefaultStart
  /\ scWords = <<>>
  /\ scOutcome = "none"
  /\ scResult = EmptyString

\* String.prototype.trim: drops the spaces at both ends.
RECURSIVE TrimStart(_)
TrimStart(str) ==
  IF str # <<>> /\ Head(str) = Space THEN TrimStart(Tail(str)) ELSE str

Trim(str) == Reverse(TrimStart(Reverse(TrimStart(str))))

\* String.prototype.repeat
RECURSIVE Repeat(_, _)
Repeat(str, count) == IF count <= 0 THEN EmptyString ELSE str \o Repeat(str, count - 1)

\* The array words that update builds from text.
Words(c, text) ==
  <<Repeat(c.start \o c.separation, c.nGrams - 1)>> \o Split(text) \o <<c.end>>

\* The windows the for loop of update pushes, in order.
Windows(words, n) ==
  [k \in 1..(IF Len(words) - 1 > 0 THEN Len(words) - 1 ELSE 0) |->
     Slice(words, k - 1, (k - 1) + n)]

\* The corpus of a chain with its windows read from the heap.
Contents(addresses) == [k \in 1..Len(addresses) |-> heap[addresses[k]]]

scUpdate(who, text) ==
  /\ scPc = "idle"
  /\ chains[who].live
  /\ IF Len(Trim(text)) = 0
       THEN UNCHANGED <<heap, chains, texts, scThis, scStart, scWords, scOutcome, scResult>>
       ELSE LET c == chains[who]
                new == Windows(Words(c, text), c.nGrams)
            IN  /\ heap' = heap \o new
                /\ chains' = [chains EXCEPT ![who].corpus =
                                @ \o [k \in 1..Len(new) |-> Len(heap) + k]]
                /\ texts' = IF who = "chain" THEN Append(texts, text) ELSE texts
                /\ scThis' = "chain"
                /\ scStart' = DefaultStart
                /\ scWords' = <<>>
                /\ scOutcome' = "none"
                /\ scResult' = EmptyString
  /\ UNCHANGED <<json, writes, scPc>>

ScUpdate ==
  \E who \in Names, text \in StringsUpTo(MaxText) :
    /\ Len(heap) + Len(Split(text)) + 1 <= MaxWindows
    /\ scUpdate(who, text)

\* The words of the windows of a corpus.
Vocabulary(addresses) == UNION {Range(heap[addresses[k]]) : k \in 1..Len(addresses)}

\* generate up to its while loop.
ScGenerateBegin ==
  /\ scPc = "idle"
  /\ \E who \in Names :
       /\ chains[who].live
       /\ LET c == chains[who]
          IN  \E st \in {c.start, c.end, <<"a">>} \cup Vocabulary(c.corpus) :
                /\ scThis' = who
                /\ scStart' = st
                /\ IF Len(c.corpus) = 0
                     THEN /\ scWords' = <<>>
                          /\ scResult' = EmptyString
                          /\ scOutcome' = "returned"
                          /\ scPc' = "idle"
                     ELSE IF st = c.end
                       \* no iteration: words.shift() empties words, join gives ''
                       THEN /\ scWords' = <<>>
                            /\ scResult' = EmptyString
                            /\ scOutcome' = "returned"
                            /\ scPc' = "idle"
                       ELSE /\ scWords' = <<st>>
                            /\ scResult' = EmptyString
                            /\ scOutcome' = "none"
                            /\ scPc' = "walk"
  /\ UNCHANGED <<heap, chains, json, texts, writes>>

\* words.shift(); words.pop(); words.join(this.separation)
Trimmed(words) == Join(Slice(words, 1, Len(words) - 1))

\* One iteration of the while loop, and the return when the end is reached.
ScGenerateStep ==
  /\ scPc = "walk"
  /\ Len(scWords) < MaxWalk
  /\ LET c == chains[scThis]
         last == scWords[Len(scWords)]
         nextChains == {k \in 1..Len(c.corpus) : heap[c.corpus[k]][0 + 1] = last}
     IN  IF nextChains = {}
           \* nextChain is undefined; nextChain.slice throws
           THEN /\ scOutcome' = "TypeError"
                /\ scPc' = "idle"
                /\ UNCHANGED <<scWords, scResult>>
           ELSE \E k \in nextChains :
                  LET nextChain == heap[c.corpus[k]]
                      grown == scWords \o Slice(nextChain, 1, Len(nextChain))
                  IN  IF grown[Len(grown)] # c.end
                        THEN /\ scWords' = grown
                             /\ UNCHANGED <<scOutcome, scResult, scPc>>
                        ELSE /\ scWords' = Slice(grown, 1, Len(grown) - 1)
                             /\ scResult' = Trimmed(grown)
                             /\ scOutcome' = "returned"
                             /\ scPc' = "idle"
  /\ UNCHANGED <<heap, chains, json, texts, writes, scThis, scStart>>

\* chain.toJSON(): a new outer array over the same window arrays.
toJSON ==
  /\ scPc = "idle"
  /\ \E who \in {"chain"} :
       /\ chains[who].live
       /\ LET c == chains[who]
          IN  json' = [made |-> TRUE, nGrams |-> c.nGrams, start |-> c.start, end |-> c.end,
                       separation |-> c.separation,
                       corpus |-> [k \in 1..Len(c.corpus) |-> c.corpus[k]]]
  /\ UNCHANGED <<heap, chains, texts, writes, scPc, scThis, scStart, scWords, scOutcome, scResult>>

\* fromJSON(json): a new chain whose corpus is a new outer array over json's windows.
fromJSON ==
  /\ scPc = "idle"
  /\ json.made
  /\ LET markovChain == Construct(json.nGrams, json.start, json.end, json.separation)
     IN  chains' = [chains EXCEPT !["copy"] =
                      [markovChain EXCEPT !.corpus =
                         [k \in 1..Len(json.corpus) |-> json.corpus[k]]]]
  /\ UNCHANGED <<heap, json, texts, writes, scPc, scThis, scStart, scWords, scOutcome, scResult>>

\* The caller stores a word into a window of the copy: copy.corpus[k][j] = word.
SetElement ==
  /\ scPc = "idle"
  /\ chains["copy"].live
  /\ writes < MaxWrites
  /\ writes' = writes + 1
  /\ \E k \in 1..Len(chains["copy"].corpus) :
       LET address == chains["copy"].corpus[k]
       IN  \E j \in 1..Len(heap[address]), word \in {<<"a">>, <<"b">>} :
             /\ heap[address][j] # word
             /\ heap' = [heap EXCEPT ![address][j] = word]
  /\ UNCHANGED <<chains, json, texts, scPc, scThis, scStart, scWords, scOutcome, scResult>>

\* ------------------------------------------------------------ generateFrom
\* The value undefined: equal to no word.
Undefined == <<"%undefined%">>

InitFrom ==
  /\ gfPc = "idle"
  /\ fromWord = EmptyString
  /\ leftPart = <<>>
  /\ rightPart = EmptyString
  /\ search = EmptyString
  /\ gfOutcome = "none"
  /\ gfResult = EmptyString
  /\ before = <<>>

\* contains(word) of the String-Corpus chain.
ScContains(c, w) == \E k \in 1..Len(c.corpus) : IndexOf(heap[c.corpus[k]], w) # -1

\* while (chain[0] !== word) chain.shift()
RECURSIVE ShiftTo(_, _)
ShiftTo(arr, w) == IF arr # <<>> /\ arr[0 + 1] # w THEN ShiftTo(Tail(arr), w) ELSE arr

\* generateFrom up to the call of this.generate(word).
GenerateFromBegin ==
  /\ scPc = "idle"
  /\ gfPc = "idle"
  /\ \E who \in Names :
       /\ chains[who].live
       /\ LET c == chains[who]
          IN  \E w \in {c.start, c.end, <<"a">>} \cup Vocabulary(c.corpus) :
                /\ scThis' = who
                /\ fromWord' = w
                /\ before' = Contents(c.corpus)
                /\ leftPart' = <<>>
                /\ rightPart' = EmptyString
                /\ search' = w
                /\ gfResult' = EmptyString
                /\ IF Len(c.corpus) = 0 \/ ~ScContains(c, w) \/ w = c.start \/ w = c.end
                     THEN /\ gfOutcome' = "returned"
                          /\ gfPc' = "idle"
                          /\ UNCHANGED <<scStart, scWords, scOutcome, scResult, scPc>>
                     \* this.generate(word): the corpus is not empty and word is
                     \* not end, so words = [word] and the while loop is entered
                     ELSE /\ gfOutcome' = "none"
                          /\ gfPc' = "right"
                          /\ scStart' = w
                          /\ scWords' = <<w>>
                          /\ scOutcome' = "none"
                          /\ scResult' = EmptyString
                          /\ scPc' = "walk"
  /\ UNCHANGED <<heap, chains, json, texts, writes>>

\* this.generate(word) has ended: its failure is the failure of generateFrom,
\* its value is rightPart.
GenerateFromRight ==
  /\ gfPc = "right"
  /\ scPc = "idle"
  /\ IF scOutcome = "TypeError"
       THEN /\ gfOutcome' = "TypeError"
            /\ gfPc' = "idle"
            /\ UNCHANGED <<rightPart, search>>
       ELSE /\ rightPart' = scResult
            /\ search' = fromWord
            /\ gfPc' = "left"
            /\ UNCHANGED gfOutcome
  /\ UNCHANGED <<heap, chains, json, texts, writes, scPc, scThis, scStart, scWords,
                 scOutcome, scResult, fromWord, leftPart, gfResult, before>>

\* The test of the while loop of generateFrom and one iteration, or the return.
GenerateFromLeft ==
  /\ gfPc = "left"
  /\ LET c == chains[scThis]
     IN  IF search = c.start
           \* leftPart.pop(); return [...leftPart.reverse(), rightPart].join(separation)
           THEN LET popped == Slice(leftPart, 0, Len(leftPart) - 1)
                IN  /\ leftPart' = Reverse(popped)
                    /\ gfResult' = Join(Reverse(popped) \o <<rightPart>>)
                    /\ gfOutcome' = "returned"
                    /\ gfPc' = "idle"
                    /\ UNCHANGED <<heap, search>>
           ELSE IF search = fromWord
             THEN LET found == {k \in 1..Len(c.corpus) :
                                  IndexOf(heap[c.corpus[k]], fromWord) > 0}
                  IN  IF found = {}
                        \* chains[NaN] is undefined; spreading it throws
                        THEN /\ gfOutcome' = "TypeError"
                             /\ gfPc' = "idle"
                             /\ UNCHANGED <<heap, leftPart, search, gfResult>>
                        ELSE \E k \in found :
                               \* a reversed copy of the window, cut to start at word
                               LET chain == ShiftTo(Reverse(heap[c.corpus[k]]), fromWord)
                                   grown == leftPart \o chain
                               IN  /\ leftPart' = grown
                                   /\ search' = grown[(Len(grown) - 1) + 1]
                                   /\ UNCHANGED <<heap, gfOutcome, gfResult, gfPc>>
             ELSE LET nextChains == {k \in 1..Len(c.corpus) :
                                       LET w == heap[c.corpus[k]]
                                       IN  w # <<>> /\ w[(Len(w) - 1) + 1] = search}
                  IN  IF nextChains = {}
                        \* nextChain is undefined; nextChain.reverse throws
                        THEN /\ gfOutcome' = "TypeError"
                             /\ gfPc' = "idle"
                             /\ UNCHANGED <<heap, leftPart, search, gfResult>>
                        ELSE \E k \in nextChains :
                               \* nextChain.reverse() reverses the stored window itself;
                               \* leftPart[leftPart.length] is undefined
                               LET address == c.corpus[k]
                                   reversed == Reverse(heap[address])
                               IN  /\ heap' = [heap EXCEPT ![address] = reversed]
                                   /\ leftPart' = leftPart \o Slice(reversed, 1, Len(reversed))
                                   /\ search' = Undefined
                                   /\ UNCHANGED <<gfOutcome, gfResult, gfPc>>
  /\ UNCHANGED <<chains, json, texts, writes, scPc, scThis, scStart, scWords,
                 scOutcome, scResult, fromWord, rightPart, before>>

\* ------------------------------------------------------- the specifications
\* The Indexed-Dictionary chain (the String-Corpus chain stays as constructed).
Init == InitIndexed /\ InitString({DefaultNGrams}) /\ InitFrom /\ iterated = FALSE

Next ==
  \/ Update /\ UNCHANGED <<svars, fvars, iterated>>
  \/ GenerateBegin /\ UNCHANGED <<svars, fvars, iterated>>
  \/ GenerateStep /\ UNCHANGED <<svars, fvars, iterated>>

Spec == Init /\ [][Next]_vars

\* The String-Corpus chain.
NextString ==
  \/ ScUpdate /\ UNCHANGED <<ivars, fvars, iterated>>
  \/ ScGenerateBegin /\ UNCHANGED <<ivars, fvars, iterated>>
  \/ ScGenerateStep /\ UNCHANGED <<ivars, fvars, iterated>>

InitAnyNGrams == InitIndexed /\ InitString(0..MaxNGrams) /\ InitFrom /\ iterated = FALSE

SpecString == InitAnyNGrams /\ [][NextString]_vars

\* The String-Corpus chain, its snapshot and the chain rebuilt from it.
NextSnapshot ==
  \/ ScUpdate /\ UNCHANGED <<ivars, fvars, iterated>>
  \/ toJSON /\ UNCHANGED <<ivars, fvars, iterated>>
  \/ fromJSON /\ UNCHANGED <<ivars, fvars, iterated>>
  \/ SetElement /\ UNCHANGED <<ivars, fvars, iterated>>

SpecSnapshot == InitAnyNGrams /\ [][NextSnapshot]_vars

\* The String-Corpus chain: update and generateFrom.  A call runs to its end
\* before the next begins; an update forgets how the last call ended.
NextFrom ==
  \/ /\ ScUpdate
     /\ gfPc = "idle"
     /\ gfOutcome' = "none"
     /\ gfResult' = EmptyString
     /\ UNCHANGED <<gfPc, fromWord, leftPart, rightPart, search, before>>
     /\ UNCHANGED <<ivars, iterated>>
  \/ GenerateFromBegin /\ UNCHANGED <<ivars, iterated>>
  \/ ScGenerateStep /\ gfPc = "right" /\ UNCHANGED <<ivars, fvars, iterated>>
  \/ GenerateFromRight /\ UNCHANGED <<ivars, iterated>>
  \/ GenerateFromLeft /\ UNCHANGED <<ivars, iterated>>

SpecFrom == InitAnyNGrams /\ [][NextFrom]_vars

\* ------------------------------------------- a chain built from a base
\* Total size of what a chain built from a base learns.
MaxLearn == 3

\* The config of a base: a GenerationConfig.
StoredConfigs == [from : {EmptyString, <<"a">>}, grams : 1..MaxGrams, backward : BOOLEAN]

\* new MarkovChain({config: c}): base.corpus and base.dictionary are absent.
BuildBased ==
  /\ corpus = <<>>
  /\ dictionary = <<>>
  /\ config \in StoredConfigs
  /\ learnt = <<>>
  /\ pc = "idle"
  /\ NoCall

UpdateBased ==
  \E str \in StringsUpTo(MaxLearn - 1) :
    /\ Cost(learnt) + 1 + Len(str) <= MaxLearn
    /\ update(str)

NextBased ==
  \/ UpdateBased /\ UNCHANGED <<svars, fvars, iterated>>
  \/ GenerateBegin /\ UNCHANGED <<svars, fvars, iterated>>
  \/ GenerateStep /\ UNCHANGED <<svars, fvars, iterated>>

InitBased == BuildBased /\ InitString({DefaultNGrams}) /\ InitFrom /\ iterated = FALSE

SpecBased == InitBased /\ [][NextBased]_vars

\* ----------------------------------------------- the walk without a cap
\* The last MaxWalk indices of a sentence.
Kept(indices) ==
  IF Len(indices) <= MaxWalk THEN indices
  ELSE SubSeq(indices, Len(indices) - MaxWalk + 1, Len(indices))

\* One iteration of the while loop once sentence holds MaxWalk indices or
\* more.  The loop reads only the last index of sentence, so sentence keeps
\* its last MaxWalk indices here, and result, when the walk is done, is the
\* translation of those.
GenerateStepOn ==
  /\ pc = "walk"
  /\ Len(sentence) >= MaxWalk
  /\ iterated' = ~iterated
  /\ LET last == sentence[Len(sentence)]
         possibleChains == {c \in 1..Len(corpus) : Includes(corpus[c], last)}
     IN  IF possibleChains = {}
           THEN /\ outcome' = "TypeError"
                /\ pc' = "idle"
                /\ UNCHANGED <<sentence, result>>
           ELSE \E c \in possibleChains :
                  LET chain == corpus[c]
                      wordIndex == IndexOf(chain, last)
                      grown == Kept(sentence \o Sequence(chain, wordIndex, grams, backward))
                  IN  /\ sentence' = grown
                      /\ IF Done(chain, wordIndex, grams, backward)
                           THEN /\ result' = Translate(grown, backward)
                                /\ outcome' = "returned"
                                /\ pc' = "idle"
                           ELSE UNCHANGED <<result, outcome, pc>>
  /\ UNCHANGED <<corpus, dictionary, config, learnt, args, from, grams, backward>>

NextWalk ==
  \/ Update /\ UNCHANGED <<svars, fvars, iterated>>
  \/ GenerateBegin /\ UNCHANGED <<svars, fvars, iterated>>
  \/ GenerateStep /\ UNCHANGED <<svars, fvars, iterated>>
  \/ GenerateStepOn /\ UNCHANGED <<svars, fvars>>

\* An iteration of the while loop, and one that sets done.
Iterates ==
  ((GenerateStep /\ UNCHANGED iterated) \/ GenerateStepOn) /\ UNCHANGED <<svars, fvars>>
Finishes == Iterates /\ pc' = "idle"

\* The loop goes on while it can, and _getRandom is fair: a walk that again
\* and again has a candidate sentence whose pick ends it does pick one.
FairWalk == WF_vars(Iterates) /\ SF_vars(Finishes)

SpecWalk == Init /\ [][NextWalk]_vars /\ FairWalk

\* ========================================================================
\* Properties of the Indexed-Dictionary chain (specification Spec).

\* The tokens of every sentence learnt so far.
LearntTokens == UNION {Range(Split(learnt[k])) : k \in 1..Len(learnt)}

PairwiseDistinct(seq) == \A i, j \in 1..Len(seq) : seq[i] = seq[j] => i = j

\* C1: after any sequence of update calls on a chain built with no base, every
\* index stored in a corpus sentence is a position of dictionary
\* (0 <= index < dictionary.length) and dictionary holds no word twice.
C1_IndicesValidNoDuplicates ==
  /\ \A c \in 1..Len(corpus) : \A i \in 1..Len(corpus[c]) :
       0 <= corpus[c][i] /\ corpus[c][i] < Len(dictionary)
  /\ PairwiseDistinct(dictionary)

\* Two sentences learnt, the second reusing a word of the first and adding one.
C1_Witness ==
  /\ Len(corpus) = 2
  /\ \E i \in 1..Len(corpus[2]) : Includes(corpus[1], corpus[2][i])
  /\ \E i \in 1..Len(corpus[2]) : ~Includes(corpus[1], corpus[2][i])

\* C2: contains(w) is true exactly when w is a token, by split(' '), of a
\* sentence learnt so far; on a chain that has learnt nothing it is false for
\* every word.  (A word outside dictionary and outside the tokens is on
\* neither side, so the words quantified over are these and the probes.)
C2_ContainsIffLearntToken ==
  \A w \in Range(dictionary) \cup LearntTokens \cup Probes \cup StringsUpTo(2) :
    contains(w) <=> w \in LearntTokens

\* Two sentences learnt; a word of the first sentence only, a word of the
\* second only, and a word never learnt.
C2_Witness ==
  /\ Len(learnt) = 2
  /\ \E w \in Range(Split(learnt[1])) : w \notin Range(Split(learnt[2])) /\ contains(w)
  /\ \E w \in Range(Split(learnt[2])) : w \notin Range(Split(learnt[1])) /\ contains(w)
  /\ \E w \in Probes : ~contains(w)

\* Is seq a prefix of longer?
IsPrefix(seq, longer) ==
  Len(seq) <= Len(longer) /\ SubSeq(longer, 1, Len(seq)) = seq

\* C3: (an update(s) step is one that extends the history learnt by s.)
\* Every update(s) appends exactly one sentence to corpus and leaves the
\* earlier sentences as they were; dictionary before the call is a prefix of
\* dictionary after it; and when every token of s is already in dictionary
\* (as when a sentence is learnt a second time) dictionary is unchanged.
C3_UpdateAppendsOneSentence ==
  [][learnt' # learnt =>
       LET str == learnt'[Len(learnt')]
       IN  /\ Len(corpus') = Len(corpus) + 1
           /\ SubSeq(corpus', 1, Len(corpus)) = corpus
           /\ IsPrefix(dictionary, dictionary')
           /\ (Range(Split(str)) \subseteq Range(dictionary)) => dictionary' = dictionary]_vars

\* The same sentence learnt twice: two equal corpus sentences, and the
\* dictionary of the first learn.
C3_Witness ==
  /\ Len(learnt) = 2
  /\ learnt[1] = learnt[2]
  /\ learnt[1] # EmptyString
  /\ Len(corpus) = 2
  /\ corpus[1] = corpus[2]
  /\ Len(dictionary) = Len(Split(learnt[1]))

\* The config object asks for backward generation.
AsksBackward == "backward" \in DOMAIN args /\ args.backward

\* The config object names a word to generate from.
AsksFrom == "from" \in DOMAIN args

\* C4 as stated: on a chain that has learnt exactly one sentence, of pairwise
\* distinct tokens t0..tk, for every grams, generate({from: ti, backward: true})
\* returns t0..ti joined by spaces, generate({from: ti}) returns ti..tk, and
\* generate() with no config returns the whole sentence.
C4_AsStated ==
  (Len(learnt) = 1 /\ PairwiseDistinct(Split(learnt[1])) /\ outcome # "none") =>
    LET t == Split(learnt[1])
    IN  /\ (AsksFrom /\ args.from \in Range(t)) =>
             LET i == IndexOf(t, args.from) + 1
             IN  /\ outcome = "returned"
                 /\ result = IF AsksBackward THEN Join(SubSeq(t, 1, i))
                                             ELSE Join(SubSeq(t, i, Len(t)))
        /\ (args = <<>>) => outcome = "returned" /\ result = learnt[1]

\* C4 amended: the same for every token ti that is not the empty string (an
\* empty from is no from: the walk starts at an end of the sentence), and
\* while the walk runs, sentence is no longer than the learnt sentence.
C4_SingleSentenceExact ==
  (Len(learnt) = 1 /\ PairwiseDistinct(Split(learnt[1]))) =>
    LET t == Split(learnt[1])
    IN  /\ (outcome # "none" /\ AsksFrom /\ args.from # EmptyString /\ args.from \in Range(t)) =>
             LET i == IndexOf(t, args.from) + 1
             IN  /\ outcome = "returned"
                 /\ result = IF AsksBackward THEN Join(SubSeq(t, 1, i))
                                             ELSE Join(SubSeq(t, i, Len(t)))
        /\ (outcome # "none" /\ args = <<>>) => outcome = "returned" /\ result = learnt[1]
        /\ (pc = "walk") => Len(sentence) <= Len(t)

\* A backward walk with grams 1 from the third of three distinct tokens has
\* returned after two iterations.
C4_Witness ==
  /\ Len(learnt) = 1
  /\ PairwiseDistinct(Split(learnt[1]))
  /\ Len(Split(learnt[1])) = 3
  /\ outcome = "returned"
  /\ AsksFrom /\ args.from # EmptyString
  /\ args.from = Split(learnt[1])[3]
  /\ AsksBackward
  /\ grams = 1
  /\ Len(sentence) = 3

\* The first and the last token of each sentence learnt.
FirstTokens == {Split(learnt[k])[1] : k \in 1..Len(learnt)}
LastTokens == {Split(learnt[k])[Len(Split(learnt[k]))] : k \in 1..Len(learnt)}

\* C5 as stated: whenever generate is called with a known word w as from and
\* returns, the forward result starts with w and ends with the last token of
\* a learnt sentence; the backward result ends with w and starts with the
\* first token of a learnt sentence.
C5_AsStated ==
  (outcome = "returned" /\ AsksFrom /\ contains(args.from)) =>
    LET r == Split(result)
    IN  IF AsksBackward
          THEN r[Len(r)] = args.from /\ r[1] \in FirstTokens
          ELSE r[1] = args.from /\ r[Len(r)] \in LastTokens

\* C5 amended: the same for every known word w that is not the empty string.
C5_EndpointsOfResult ==
  (outcome = "returned" /\ AsksFrom /\ args.from # EmptyString /\ contains(args.from)) =>
    LET r == Split(result)
    IN  IF AsksBackward
          THEN r[Len(r)] = args.from /\ r[1] \in FirstTokens
          ELSE r[1] = args.from /\ r[Len(r)] \in LastTokens

\* Two sentences sharing the word asked for; the walk has appended to it and
\* returned.
C5_Witness ==
  /\ Len(corpus) = 2
  /\ outcome = "returned"
  /\ AsksFrom /\ args.from # EmptyString /\ contains(args.from)
  /\ Includes(corpus[1], IndexOf(dictionary, args.from))
  /\ Includes(corpus[2], IndexOf(dictionary, args.from))
  /\ Len(sentence) >= 2

\* C6: generate on a chain that has learnt nothing returns the empty string
\* and does not fail: Indexed-Dictionary generate for every config, no config
\* included, and String-Corpus generate for every start.
C6_EmptyChainGeneratesEmpty ==
  /\ (Len(corpus) = 0 /\ outcome # "none") =>
       outcome = "returned" /\ result = EmptyString
  /\ (Len(chains["chain"].corpus) = 0 /\ scThis = "chain" /\ scOutcome # "none") =>
       scOutcome = "returned" /\ scResult = EmptyString

\* C13: (specification SpecBased) in every generate call each of from, grams
\* and backward is, independently of the other two, the supplied value when
\* that value is truthy and the stored default otherwise: a supplied from: '',
\* grams: 0 or backward: false is resolved as an omitted field is, also when
\* the stored default differs from it; and the walk starts at the resolved
\* from.
C13_FalsyFallsBack ==
  (pc = "walk" \/ outcome # "none") =>
    /\ from = IF "from" \in DOMAIN args /\ args.from # EmptyString
                THEN args.from ELSE config.from
    /\ grams = IF "grams" \in DOMAIN args /\ args.grams # 0
                 THEN args.grams ELSE config.grams
    /\ backward = IF "backward" \in DOMAIN args /\ args.backward
                    THEN TRUE ELSE config.backward
    /\ (from # EmptyString /\ sentence # <<>>) => sentence[0 + 1] = IndexOf(dictionary, from)
    /\ (from # EmptyString /\ outcome = "returned" /\ result # EmptyString) =>
         LET r == Split(result)
         IN  IF backward THEN r[Len(r)] = from ELSE r[1] = from

\* A base with from 'a', grams 1 and backward true; generate({from: '',
\* grams: 0, backward: false}) has walked backward from 'a' and returned the
\* two-word sentence learnt.
C13_Witness ==
  /\ config = [from |-> <<"a">>, grams |-> 1, backward |-> TRUE]
  /\ DOMAIN args = {"from", "grams", "backward"}
  /\ args.from = EmptyString /\ args.grams = 0 /\ args.backward = FALSE
  /\ outcome = "returned"
  /\ from = <<"a">> /\ grams = 1 /\ backward
  /\ Len(sentence) = 2
  /\ result = learnt[1]

\* C14: in a chain built from nothing by update calls every corpus sentence is
\* non-empty and every dictionary position occurs in a corpus sentence; so
\* at every step of a walk of generate the last index of sentence is a
\* dictionary position and some corpus sentence contains it, and generate
\* fails for lack of a candidate sentence only when the corpus is empty.
C14_ContinuationExists ==
  /\ \A c \in 1..Len(corpus) : corpus[c] # <<>>
  /\ \A i \in 0..(Len(dictionary) - 1) : \E c \in 1..Len(corpus) : Includes(corpus[c], i)
  /\ (pc = "walk") =>
       LET last == sentence[(Len(sentence) - 1) + 1]
       IN  /\ last \in 0..(Len(dictionary) - 1)
           /\ \E c \in 1..Len(corpus) : Includes(corpus[c], last)
  /\ (outcome = "TypeError") => Len(corpus) = 0

\* A walk that has made an iteration and goes on, in a chain of two sentences
\* that both contain the last index.
C14_Witness ==
  /\ pc = "walk"
  /\ Len(sentence) >= 2
  /\ Len(corpus) = 2
  /\ \A c \in 1..2 : Includes(corpus[c], sentence[(Len(sentence) - 1) + 1])

\* C11: (specification SpecWalk) every walk of generate ends: whatever the
\* chain has learnt, for every known word given as from, either direction and
\* every grams >= 1, a call that has entered the while loop leaves it,
\* returning or failing, when the candidate sentence is picked fairly.
C11_WalkTerminates ==
  (pc = "walk" /\ AsksFrom /\ args.from # EmptyString /\ contains(args.from))
    ~> (pc = "idle")

\* ========================================================================
\* Properties of the String-Corpus chain (specifications SpecString and
\* SpecSnapshot).

\* The corpus of "chain", its windows read from the heap.
OriginalCorpus == Contents(chains["chain"].corpus)

\* The parameters of a chain or of a snapshot.
Parameters(c) == <<c.nGrams, c.start, c.end, c.separation>>

\* C7 (String-Corpus part): the snapshot of chain and the chain rebuilt from
\* it hold the corpus and the parameters of their source element for element,
\* and no later change to the snapshot or to the copy (a rebuild, an update of
\* the copy, a word stored into one of its windows) changes the corpus of the
\* original.
C7_SnapshotIndependent ==
  [][/\ toJSON =>
          Contents(json.corpus)' = OriginalCorpus /\ Parameters(json)' = Parameters(chains["chain"])
     /\ fromJSON =>
          /\ Contents(chains["copy"].corpus)' = Contents(json.corpus)
          /\ Parameters(chains["copy"])' = Parameters(json)
     /\ (toJSON \/ fromJSON \/ SetElement
           \/ \E text \in StringsUpTo(MaxText) : scUpdate("copy", text)) =>
          OriginalCorpus' = OriginalCorpus]_vars

\* C8: after chain has learnt exactly one sentence, of pairwise distinct
\* tokens, no run of generate() fails for lack of a window starting with the
\* last word, and every run that returns yields exactly that sentence (with
\* no start or end delimiter in it).
C8_SingleSentenceString ==
  (/\ Len(texts) = 1
   /\ PairwiseDistinct(Split(texts[1]))
   /\ scThis = "chain"
   /\ scStart = chains["chain"].start
   /\ scOutcome # "none") =>
     /\ scOutcome = "returned"
     /\ scResult = texts[1]

\* C12 (String-Corpus generateFrom): a call of generateFrom that has returned
\* the empty string, or has failed, has left the corpus of its chain, the
\* contents and the order of every window included, as it was when the call
\* began.
C12_FailedCallLeavesModel ==
  (gfOutcome = "TypeError" \/ (gfOutcome = "returned" /\ gfResult = EmptyString)) =>
    Contents(chains[scThis].corpus) = before

\* C9: every window stored in the corpus of chain has length exactly nGrams.
C9_WindowLength ==
  \A k \in 1..Len(OriginalCorpus) : Len(OriginalCorpus[k]) = chains["chain"].nGrams

\* The padded sequence of C10: n start tokens, the tokens of text, n end tokens.
Padded(c, text) ==
  [k \in 1..c.nGrams |-> c.start] \o Split(text) \o [k \in 1..c.nGrams |-> c.end]

\* The windows of C10: padded[i : i + n] for each i in [0, len(padded) - n).
PaddedWindows(c, text) ==
  LET padded == Padded(c, text)
  IN  [k \in 1..(Len(padded) - c.nGrams) |-> Slice(padded, k - 1, (k - 1) + c.nGrams)]

\* C10: update(text) with a non-blank text appends exactly the
\* max(0, padded_length - n) windows padded[i : i + n], i in
\* [0, padded_length - n), of the padded sequence; update with a blank text
\* appends nothing.
C10_UpdateAppendsPaddedWindows ==
  [][\A text \in StringsUpTo(MaxText) :
       scUpdate("chain", text) =>
         IF Len(Trim(text)) = 0
           THEN OriginalCorpus' = OriginalCorpus
           ELSE OriginalCorpus' = OriginalCorpus \o PaddedWindows(chains["chain"], text)]_vars

====
